---- MODULE Spec2Model ----
(***************************************************************************)
(* x402 payment gate (python/x402): the Flask PaymentMiddleware, the       *)
(* FastAPI require_payment builder, the FacilitatorClient and the price    *)
(* and path helpers they use.                                              *)
(*                                                                         *)
(* Python strings that the code inspects character by character (paths,    *)
(* patterns, prices, URLs) are sequences of one-character strings; strings *)
(* the code only copies or compares are TLA+ strings.                      *)
(***************************************************************************)
EXTENDS Integers, Sequences, FiniteSets, TLC

VARIABLES
    middleware_configs,   \* PaymentMiddleware.middleware_configs (Flask)
    wsgi_app,             \* Flask app.wsgi_app: the gate layers wrapped around the
                          \* application, innermost first
    fastapi_middlewares,  \* middlewares returned by require_payment and installed
                          \* with app.middleware("http"), innermost first
    fastapi_rules,        \* arguments of the require_payment calls the application
                          \* made, in order
    raised,               \* exception raised by the last registration call, or "none"
    request,              \* the request being served, or NoRequest
    pc,                   \* position of the request in the layered call
    depth,                \* index of the layer about to run (0: the application)
    frames,               \* gate layers suspended in next_app, outermost first
    response,             \* the response started so far, or NoResponse
    g,                    \* flask.g of the request
    calls,                \* Facilitator calls made for the request, in order
    trace,                \* gate events of the request, in order
    fn_call,              \* a helper applied on its own: its name and arguments
    fn_result,            \* what that application returned or raised
    thread,               \* the server thread that is running
    parked,               \* the request state of the threads that are not
    event_loops,          \* asyncio loop objects, by the thread that made them
    current_loop          \* asyncio's current event loop of each thread

vars == <<middleware_configs, wsgi_app, fastapi_middlewares, fastapi_rules, raised,
          request, pc, depth, frames, response, g, calls, trace, fn_call, fn_result,
          thread, parked, event_loops, current_loop>>

\* what the registrations build, and the helper application
gates == <<middleware_configs, wsgi_app, fastapi_middlewares, fastapi_rules>>

helpers == <<fn_call, fn_result>>

\* the server's threads and the event loops they made
concurrency == <<thread, parked, event_loops, current_loop>>

\* the application and the request it serves
serving == <<gates, raised, request, pc, depth, frames, response, g, calls, trace>>

-----------------------------------------------------------------------------
(* Bounds *)

\* most rules registered with PaymentMiddleware.add / require_payment
MaxRules == 2

\* most fractional digits of a Money price handed to the price helpers
MaxFracDigits == 7
MaxPathList == 2

-----------------------------------------------------------------------------
(* Strings as character sequences *)

Digits == <<"0", "1", "2", "3", "4", "5", "6", "7", "8", "9">>

IsDigit(c) == \E i \in 1..10 : Digits[i] = c

DigitVal(c) == (CHOOSE i \in 1..10 : Digits[i] = c) - 1

\* str.startswith(prefix)
startswith(s, prefix) ==
    /\ Len(s) >= Len(prefix)
    /\ SubSeq(s, 1, Len(prefix)) = prefix

\* str.endswith(suffix)
endswith(s, suffix) ==
    /\ Len(s) >= Len(suffix)
    /\ SubSeq(s, Len(s) - Len(suffix) + 1, Len(s)) = suffix

\* s[n:]
DropFirst(s, n) == SubSeq(s, n + 1, Len(s))

Contains(s, c) == \E i \in 1..Len(s) : s[i] = c

AllDigits(s) == \A i \in 1..Len(s) : IsDigit(s[i])

RECURSIVE DigitsToNat(_)
DigitsToNat(s) ==
    IF s = <<>> THEN 0
    ELSE 10 * DigitsToNat(SubSeq(s, 1, Len(s) - 1)) + DigitVal(s[Len(s)])

RECURSIVE NatToDigits(_)
NatToDigits(n) ==
    IF n < 10 THEN <<Digits[n + 1]>>
    ELSE NatToDigits(n \div 10) \o <<Digits[(n % 10) + 1]>>

\* str(n) of a Python int
IntToStr(n) == IF n < 0 THEN <<"-">> \o NatToDigits(-n) ELSE NatToDigits(n)

\* int(v) of a Python str: an optional sign and decimal digits; anything else
\* raises ValueError (surrounding blanks and underscores are not drawn)
IntParses(v) ==
    LET body == IF v # <<>> /\ v[1] \in {"+", "-"} THEN DropFirst(v, 1) ELSE v
    IN  body # <<>> /\ AllDigits(body)

RECURSIVE Pow10(_)
Pow10(n) == IF n = 0 THEN 1 ELSE 10 * Pow10(n - 1)

-----------------------------------------------------------------------------
(* decimal.Decimal, as far as the price helpers use it *)

\* Decimal(text): an optional sign, then digits with at most one point, or a
\* special value; anything else raises decimal.InvalidOperation (exponents,
\* blanks and underscores are not drawn). A finite value is coeff / 10^frac.
Decimal(text) ==
    LET signed == text # <<>> /\ text[1] \in {"+", "-"}
        neg    == text # <<>> /\ text[1] = "-"
        body   == IF signed THEN DropFirst(text, 1) ELSE text
        dots   == {i \in 1..Len(body) : body[i] = "."}
        ip     == IF dots = {} THEN body
                  ELSE SubSeq(body, 1, (CHOOSE i \in dots : TRUE) - 1)
        fp     == IF dots = {} THEN <<>>
                  ELSE DropFirst(body, CHOOSE i \in dots : TRUE)
    IN  IF body = <<"N", "a", "N">> THEN [kind |-> "nan"]
        ELSE IF body = <<"I", "n", "f">> THEN [kind |-> "inf", neg |-> neg]
        ELSE IF /\ Cardinality(dots) <= 1
                /\ AllDigits(ip) /\ AllDigits(fp)
                /\ Len(ip) + Len(fp) > 0
        THEN [kind |-> "finite", neg |-> neg,
              coeff |-> DigitsToNat(ip \o fp), frac |-> Len(fp)]
        ELSE [kind |-> "invalid"]

\* int(amount * Decimal(10**decimals)) for a finite amount: the product is
\* exact and int() truncates towards zero
ScaleAndTruncate(d, decimals) ==
    LET mag == IF decimals >= d.frac
               THEN d.coeff * Pow10(decimals - d.frac)
               ELSE d.coeff \div Pow10(d.frac - decimals)
    IN  IF d.neg THEN 0 - mag ELSE mag

Ok(v) == [ok |-> TRUE, val |-> v]

Raise(exc) == [ok |-> FALSE, exc |-> exc]

-----------------------------------------------------------------------------
(* networks.py and the token tables of x402.chains *)

SupportedNetworks == {"base", "base-sepolia", "avalanche-fuji", "avalanche"}

EVM_NETWORK_TO_CHAIN_ID ==
    [n \in SupportedNetworks |->
        CASE n = "base-sepolia"   -> 84532
          [] n = "base"           -> 8453
          [] n = "avalanche-fuji" -> 43113
          [] n = "avalanche"      -> 43114]

\* x402.chains.get_chain_id: the closed lookup table of the supported networks
get_chain_id(network) ==
    IF network \in SupportedNetworks
    THEN Ok(EVM_NETWORK_TO_CHAIN_ID[network])
    ELSE Raise("ValueError")

UsdcBaseSepolia == "0x036CbD53842c5426634e7929541eC2318f3dCF7e"
UsdcBase        == "0x833589fCD6eDb6E08f4c7C32D4f71b54bdA02913"
UsdcFuji        == "0x5425890298aed601595a70AB815c96711a31Bc65"
UsdcAvalanche   == "0xB97EF9Ef8734C71904D8002F8b6Bc66Dd9c48a6E"

\* x402.common.get_usdc_address
get_usdc_address(chain_id) ==
    CASE chain_id = 84532 -> Ok(UsdcBaseSepolia)
      [] chain_id = 8453  -> Ok(UsdcBase)
      [] chain_id = 43113 -> Ok(UsdcFuji)
      [] chain_id = 43114 -> Ok(UsdcAvalanche)
      [] OTHER            -> Raise("ValueError")

\* x402.fastapi.middleware.get_usdc_address: the two Base chains only
fastapi_get_usdc_address(chain_id) ==
    CASE chain_id = 84532 -> Ok(UsdcBaseSepolia)
      [] chain_id = 8453  -> Ok(UsdcBase)
      [] OTHER            -> Raise("ValueError")

\* the static per-chain token table of x402.chains: the canonical stablecoin of
\* each chain with its decimals, display name and signing-domain version
KnownToken(chain_id, address) ==
    get_usdc_address(chain_id).ok /\ get_usdc_address(chain_id).val = address

UsdcDecimals == 6

get_token_decimals(chain_id, address) ==
    IF KnownToken(chain_id, address) THEN Ok(UsdcDecimals) ELSE Raise("ValueError")

get_token_name(chain_id, address) ==
    IF KnownToken(chain_id, address)
    THEN Ok(IF chain_id = 84532 THEN "USDC" ELSE "USD Coin")
    ELSE Raise("ValueError")

get_token_version(chain_id, address) ==
    IF KnownToken(chain_id, address) THEN Ok("2") ELSE Raise("ValueError")

-----------------------------------------------------------------------------
(* common.py: the price helpers *)

(* A Price is [kind |-> "str", text |-> chars], [kind |-> "int", value |-> n],  *)
(* [kind |-> "token", amount |-> chars, asset |-> [address, decimals, eip712]] *)
(* or [kind |-> "other"] for any other Python value.                           *)

\* int(Decimal): NaN raises ValueError, an infinity raises OverflowError
IntOfScaled(d, decimals) ==
    CASE d.kind = "finite"  -> Ok(ScaleAndTruncate(d, decimals))
      [] d.kind = "nan"     -> Raise("ValueError")
      [] d.kind = "inf"     -> Raise("OverflowError")
      [] d.kind = "invalid" -> Raise("InvalidOperation")

StripDollar(text) == IF startswith(text, <<"$">>) THEN DropFirst(text, 1) ELSE text

\* parse_money: the str branch once Decimal(amount) is known
ParseMoneyStr(d, cid, address) ==
    IF d.kind = "invalid" THEN Raise("InvalidOperation")
    ELSE IF ~cid.ok THEN cid
    ELSE IF ~get_token_decimals(cid.val, address).ok
         THEN get_token_decimals(cid.val, address)
    ELSE IntOfScaled(d, get_token_decimals(cid.val, address).val)

\* parse_money(amount, address, network) -> int: an int is returned as it is
parse_money(amount, address, network) ==
    IF amount.kind = "str"
    THEN ParseMoneyStr(Decimal(StripDollar(amount.text)), get_chain_id(network),
                       address)
    ELSE Ok(amount.value)

\* process_price_to_atomic_amount, Money branch: the returned tuple, with the
\* EIP-712 domain of the asset
MoneyTuple(atomic_amount, chain_id, asset_address) ==
    IF ~atomic_amount.ok THEN atomic_amount
    ELSE IF ~get_token_name(chain_id, asset_address).ok
         THEN get_token_name(chain_id, asset_address)
    ELSE IF ~get_token_version(chain_id, asset_address).ok
         THEN get_token_version(chain_id, asset_address)
    ELSE Ok([max_amount_required |-> IntToStr(atomic_amount.val),
             asset_address       |-> asset_address,
             eip712_domain       |->
                [name    |-> get_token_name(chain_id, asset_address).val,
                 version |-> get_token_version(chain_id, asset_address).val]])

\* process_price_to_atomic_amount, Money branch: decimals and conversion
MoneyOnAsset(amount, chain_id, asset_address) ==
    IF ~asset_address.ok THEN asset_address
    ELSE IF ~get_token_decimals(chain_id, asset_address.val).ok
         THEN get_token_decimals(chain_id, asset_address.val)
    ELSE MoneyTuple(
            IntOfScaled(amount, get_token_decimals(chain_id, asset_address.val).val),
            chain_id, asset_address.val)

\* process_price_to_atomic_amount, Money branch after amount = Decimal(...)
MoneyOnChain(amount, cid) ==
    IF amount.kind = "invalid" THEN Raise("InvalidOperation")
    ELSE IF ~cid.ok THEN cid
    ELSE MoneyOnAsset(amount, cid.val, get_usdc_address(cid.val))

\* the Money branch of process_price_to_atomic_amount, before its except clause
MoneyToAtomic(price, network) ==
    MoneyOnChain(Decimal(IF price.kind = "str" THEN StripDollar(price.text)
                         ELSE IntToStr(price.value)),
                 get_chain_id(network))

\* except (ValueError, KeyError): raise ValueError("Invalid price format: ...");
\* any other exception passes
ExceptValueOrKeyError(r) ==
    IF ~r.ok /\ r.exc \in {"ValueError", "KeyError"} THEN Raise("ValueError") ELSE r

\* a variant that re-renders a TokenAmount's amount as str(int(amount))
process_price_to_atomic_amount_canonical(price, network) ==
    CASE price.kind \in {"str", "int"} ->
            ExceptValueOrKeyError(MoneyToAtomic(price, network))
      [] price.kind = "token" ->
            Ok([max_amount_required |->
                    IF price.amount[1] = "-"
                    THEN IntToStr(-DigitsToNat(DropFirst(price.amount, 1)))
                    ELSE IF price.amount[1] = "+"
                    THEN IntToStr(DigitsToNat(DropFirst(price.amount, 1)))
                    ELSE IntToStr(DigitsToNat(price.amount)),
                asset_address       |-> price.asset.address,
                eip712_domain       |-> [name    |-> price.asset.eip712.name,
                                         version |-> price.asset.eip712.version]])
      [] OTHER -> Raise("ValueError")

\* process_price_to_atomic_amount(price, network)
\*   -> (max_amount_required, asset_address, eip712_domain)
process_price_to_atomic_amount(price, network) ==
    CASE price.kind \in {"str", "int"} ->
            ExceptValueOrKeyError(MoneyToAtomic(price, network))
      [] price.kind = "token" ->
            Ok([max_amount_required |-> price.amount,
                asset_address       |-> price.asset.address,
                eip712_domain       |-> [name    |-> price.asset.eip712.name,
                                         version |-> price.asset.eip712.version]])
      [] OTHER -> Raise("ValueError")           \* "Invalid price type: ..."

x402_VERSION == 1

-----------------------------------------------------------------------------
(* facilitator.py: FacilitatorClient *)

HttpPrefix  == <<"h", "t", "t", "p", ":", "/", "/">>
HttpsPrefix == <<"h", "t", "t", "p", "s", ":", "/", "/">>

\* "https://x402.org/facilitator", the default base URL (host shortened)
DefaultFacilitatorUrl == HttpsPrefix \o <<"x", "/", "f">>

(* The constructor's argument is None ([kind |-> "none"]), a mapping         *)
(* ([kind |-> "dict", has_url |-> BOOLEAN, url |-> chars]) or, from the      *)
(* FastAPI builder, a plain str ([kind |-> "str", url |-> chars]).           *)

\* FacilitatorClient.__init__(config): the stored config, or the exception.
\* A str has no .get, so config.get("url", "") raises AttributeError.
FacilitatorClient(config) ==
    IF config.kind = "str" THEN Raise("AttributeError")
    ELSE LET url == IF config.kind = "none" THEN DefaultFacilitatorUrl
                    ELSE IF config.has_url THEN config.url
                    ELSE <<>>
         IN  IF ~(startswith(url, HttpPrefix) \/ startswith(url, HttpsPrefix))
             THEN Raise("ValueError")
             ELSE Ok([url |-> IF endswith(url, <<"/">>)
                              THEN SubSeq(url, 1, Len(url) - 1)
                              ELSE url,
                      create_headers |-> "none"])

(* A reply of the remote endpoint is [transport |-> "error"] (the POST       *)
(* raised), or [transport |-> "ok", status |-> n, json |-> FALSE] (the body  *)
(* is no JSON document), or [transport |-> "ok", status |-> n, json |-> TRUE,*)
(* data |-> d] with d the decoded object: d.keys are the keys it holds, and  *)
(* a JSON null is "null".                                                    *)

Get(data, key, default) == IF key \in data.keys THEN data[key] ELSE default

\* VerifyResponse(**data): isValid is required, invalidReason defaults to None,
\* payer is Optional without a default, so the key is required
VerifyResponse(data) ==
    IF ~({"isValid", "payer"} \subseteq data.keys)
    THEN Raise("ValidationError")
    ELSE Ok([is_valid       |-> data.isValid,
             invalid_reason |-> Get(data, "invalidReason", "null"),
             payer          |-> data.payer])

\* SettleResponse(**data): success is required, the other fields default to None
SettleResponse(data) ==
    IF "success" \notin data.keys THEN Raise("ValidationError")
    ELSE Ok([success      |-> data.success,
             error_reason |-> Get(data, "errorReason", "null"),
             transaction  |-> Get(data, "transaction", "null"),
             network      |-> Get(data, "network", "null"),
             payer        |-> Get(data, "payer", "null")])

\* FacilitatorClient.verify, from the reply of POST {url}/verify: the status
\* code of the reply is never read
verify(reply) ==
    IF reply.transport = "error" THEN Raise("HTTPError")
    ELSE IF ~reply.json THEN Raise("JSONDecodeError")
    ELSE VerifyResponse(reply.data)

\* FacilitatorClient.settle, from the reply of POST {url}/settle
settle(reply) ==
    IF reply.transport = "error" THEN Raise("HTTPError")
    ELSE IF ~reply.json THEN Raise("JSONDecodeError")
    ELSE SettleResponse(reply.data)

-----------------------------------------------------------------------------
(* Path matching *)

\* fnmatch.fnmatch(name, pat) for patterns of literals, '*' and '?': the whole
\* name must match (bracket classes are not drawn)
RECURSIVE fnmatch(_, _)
fnmatch(name, pat) ==
    IF pat = <<>> THEN name = <<>>
    ELSE IF pat[1] = "*"
         THEN \/ fnmatch(name, Tail(pat))
              \/ name # <<>> /\ fnmatch(Tail(name), pat)
    ELSE IF pat[1] = "?"
         THEN name # <<>> /\ fnmatch(Tail(name), Tail(pat))
    ELSE name # <<>> /\ name[1] = pat[1] /\ fnmatch(Tail(name), Tail(pat))

\* one regular-expression atom: \d, an escaped literal, '.', or a literal
AtomLen(re) == IF re[1] = "\\" THEN 2 ELSE 1

AtomMatches(re, c) ==
    IF re[1] = "\\" THEN (IF re[2] = "d" THEN IsDigit(c) ELSE c = re[2])
    ELSE IF re[1] = "." THEN TRUE
    ELSE c = re[1]

\* does the expression match a prefix of the text? Atoms, the postfix
\* quantifiers '*' and '+', '^' at the start and '$' at the end.
RECURSIVE RegexHere(_, _)
RECURSIVE RegexStar(_, _, _)
RegexHere(re, text) ==
    IF re = <<>> THEN TRUE
    ELSE IF re = <<"$">> THEN text = <<>>
    ELSE LET n    == AtomLen(re)
             rest == DropFirst(re, n)
         IN  IF rest # <<>> /\ rest[1] = "*"
             THEN RegexStar(re, Tail(rest), text)
             ELSE IF rest # <<>> /\ rest[1] = "+"
             THEN /\ text # <<>>
                  /\ AtomMatches(re, text[1])
                  /\ RegexStar(re, Tail(rest), Tail(text))
             ELSE /\ text # <<>>
                  /\ AtomMatches(re, text[1])
                  /\ RegexHere(rest, Tail(text))
RegexStar(atom, rest, text) ==
    \/ RegexHere(rest, text)
    \/ text # <<>> /\ AtomMatches(atom, text[1]) /\ RegexStar(atom, rest, Tail(text))

\* bool(re.match(regex_pattern, request_path)): anchored at the start only
re_match(regex_pattern, request_path) ==
    IF regex_pattern # <<>> /\ regex_pattern[1] = "^"
    THEN RegexHere(Tail(regex_pattern), request_path)
    ELSE RegexHere(regex_pattern, request_path)

RegexPrefix == <<"r", "e", "g", "e", "x", ":">>

\* a variant that looks for '*' and '?' before it looks for the "regex:" prefix
single_path_match_globfirst(pattern, request_path) ==
    IF Contains(pattern, "*") \/ Contains(pattern, "?")
    THEN fnmatch(request_path, pattern)
    ELSE IF startswith(pattern, RegexPrefix)
    THEN re_match(DropFirst(pattern, 6), request_path)
    ELSE pattern = request_path

\* _path_is_match.single_path_match
single_path_match(pattern, request_path) ==
    IF startswith(pattern, RegexPrefix)
    THEN re_match(DropFirst(pattern, 6), request_path)
    ELSE IF Contains(pattern, "*") \/ Contains(pattern, "?")
    THEN fnmatch(request_path, pattern)
    ELSE pattern = request_path

(* A path argument is [kind |-> "str", pattern |-> chars] or                 *)
(* [kind |-> "list", patterns |-> sequence of chars].                        *)

\* x402.fastapi.middleware._path_is_match(path, request_path)
path_is_match(path, request_path) ==
    IF path.kind = "str" THEN single_path_match(path.pattern, request_path)
    ELSE \E i \in 1..Len(path.patterns) :
            single_path_match(path.patterns[i], request_path)

\* x402.path.path_is_match(path, request_path), used by the Flask gate: the
\* same three-way matcher
flask_path_is_match(path, request_path) == path_is_match(path, request_path)

-----------------------------------------------------------------------------
(* types.py and the credential codec *)

\* PaymentRequirements(...): network must be one of SupportedNetworks and
\* max_amount_required must pass int(); otherwise pydantic raises
PaymentRequirements(fields) ==
    IF fields.network \in SupportedNetworks /\ IntParses(fields.max_amount_required)
    THEN Ok(fields)
    ELSE Raise("ValidationError")

\* PaymentRequirements.model_dump(by_alias=True): the camelCase wire form
model_dump(req) ==
    [scheme            |-> req.scheme,
     network           |-> req.network,
     maxAmountRequired |-> req.max_amount_required,
     resource          |-> req.resource,
     description       |-> req.description,
     mimeType          |-> req.mime_type,
     outputSchema      |-> req.output_schema,
     payTo             |-> req.pay_to,
     maxTimeoutSeconds |-> req.max_timeout_seconds,
     asset             |-> req.asset,
     extra             |-> req.extra]

(* An X-PAYMENT header is [present |-> FALSE] or [present |-> TRUE,          *)
(* base64 |-> BOOLEAN, json |-> BOOLEAN, data |-> d]: whether the text is    *)
(* valid base64, whether the decoded bytes are a JSON document, and the      *)
(* decoded object (d.keys its keys, d.value the authorization's value).      *)

PaymentPayloadKeys == {"x402Version", "scheme", "network", "payload"}

\* PaymentPayload(**json.loads(safe_base64_decode(payment_header)))
DecodePayment(header) ==
    IF ~header.base64 THEN Raise("binascii.Error")
    ELSE IF ~header.json THEN Raise("JSONDecodeError")
    ELSE IF ~(PaymentPayloadKeys \subseteq header.data.keys)
         THEN Raise("ValidationError")
    ELSE IF ~IntParses(header.data.value) THEN Raise("ValidationError")
    ELSE Ok([x402_version |-> header.data.x402Version,
             scheme       |-> header.data.scheme,
             network      |-> header.data.network,
             value        |-> header.data.value])

BoolText(b) == IF b THEN "true" ELSE "false"

\* base64.b64encode(settle_response.model_dump_json().encode("utf-8")): the
\* JSON document by alias, key after key, wrapped in base64
EncodeSettle(sr) ==
    <<"base64",
      "success", BoolText(sr.success),
      "errorReason", sr.error_reason,
      "transaction", sr.transaction,
      "network", sr.network,
      "payer", sr.payer>>

\* the client's reading of an X-PAYMENT-RESPONSE value
DecodeSettle(value) ==
    [success      |-> value[3] = "true",
     error_reason |-> value[5],
     transaction  |-> value[7],
     network      |-> value[9],
     payer        |-> value[11]]

-----------------------------------------------------------------------------
(* Inputs *)

PathA   == <<"/", "a">>
PathA1  == <<"/", "a", "1">>
PathB   == <<"/", "b">>
PathC7  == <<"/", "c", "7">>
PathZ   == <<"/", "z">>

\* a TokenAmount: atomic units of a custom asset
TokenPrice ==
    [kind |-> "token", amount |-> <<"5">>,
     asset |-> [address  |-> "0xT0KEN", decimals |-> 18,
                eip712   |-> [name |-> "Tok", version |-> "1"]]]

RuleDefaults ==
    [description |-> "", mime_type |-> "", max_deadline_seconds |-> 60,
     output_schema |-> "None", resource |-> <<>>,
     facilitator_config |-> [kind |-> "none"]]

Rule(price, pay_to, path, network) ==
    [price |-> price, pay_to_address |-> pay_to, path |-> path,
     network |-> network] @@ RuleDefaults

\* price="$1.00", path="/a"
RuleA ==
    Rule([kind |-> "str", text |-> <<"$", "1", ".", "0", "0">>], "0x1",
         [kind |-> "str", pattern |-> PathA], "base-sepolia")

\* price="$0.5", path=["/b", "regex:^/c\d+$"]
RuleB ==
    Rule([kind |-> "str", text |-> <<"$", "0", ".", "5">>], "0x2",
         [kind |-> "list",
          patterns |-> <<PathB, RegexPrefix \o <<"^", "/", "c", "\\", "d", "+", "$">>>>],
         "base-sepolia")

\* a TokenAmount price, path="/a*": overlaps RuleA on "/a";
\* resource="https://r" and an output_schema are configured
RuleGlob ==
    [Rule(TokenPrice, "0x3", [kind |-> "str", pattern |-> <<"/", "a", "*">>],
          "base-sepolia")
     EXCEPT !.resource = HttpsPrefix \o <<"r">>,
            !.output_schema = "{\"type\": \"object\"}"]

\* price="$abc"
RuleBadPrice ==
    Rule([kind |-> "str", text |-> <<"$", "a", "b", "c">>], "0x4",
         [kind |-> "str", pattern |-> PathB], "base-sepolia")

\* facilitator_config={"url": "ftp://f"}
RuleBadUrl ==
    [Rule([kind |-> "int", value |-> 2], "0x5",
          [kind |-> "str", pattern |-> PathB], "base")
     EXCEPT !.facilitator_config =
        [kind |-> "dict", has_url |-> TRUE,
         url |-> <<"f", "t", "p", ":", "/", "/", "f">>]]

\* a TokenAmount price with network="solana", path="/c7"
RuleTokenOffNet ==
    Rule(TokenPrice, "0x6", [kind |-> "str", pattern |-> PathC7], "solana")

\* price="$-1", path="/z"
RuleNegative ==
    Rule([kind |-> "str", text |-> <<"$", "-", "1">>], "0x7",
         [kind |-> "str", pattern |-> PathZ], "base-sepolia")

\* the arguments drawn for PaymentMiddleware.add and require_payment
Rules ==
    {RuleA, RuleB, RuleGlob, RuleBadPrice, RuleBadUrl, RuleTokenOffNet, RuleNegative}

\* the rules not yet handed to add: one application is given distinct rules
NewRules(configs) == Rules \ {configs[i] : i \in DOMAIN configs}

\* an application is a Flask or a FastAPI application: the rules of one
\* framework are drawn only while none of the other was registered
FlaskRules(configs, other) == IF other = <<>> THEN NewRules(configs) ELSE {}

FastapiRules(other) == IF other = <<>> THEN Rules ELSE {}

RequestPaths == {PathA, PathA1, PathB, PathC7, PathZ}

Frameworks == {"flask", "fastapi"}

\* the framework of the requests an application with these registrations gets
AppFrameworks(configs, rules) ==
    IF configs # <<>> THEN {"flask"}
    ELSE IF rules # <<>> THEN {"fastapi"}
    ELSE Frameworks

PayloadData(scheme, network, value) ==
    [keys |-> PaymentPayloadKeys, x402Version |-> 1, scheme |-> scheme,
     network |-> network, value |-> value]

Credential(scheme, network) ==
    [present |-> TRUE, base64 |-> TRUE, json |-> TRUE,
     data |-> PayloadData(scheme, network, <<"5">>)]

NoHeader == [present |-> FALSE]

\* X-PAYMENT: "not_base64"
NotBase64 ==
    [present |-> TRUE, base64 |-> FALSE, json |-> FALSE,
     data |-> PayloadData("exact", "base-sepolia", <<"5">>)]

\* a JSON object whose authorization value is "1.5"
BadShape ==
    [present |-> TRUE, base64 |-> TRUE, json |-> TRUE,
     data |-> PayloadData("exact", "base-sepolia", <<"1", ".", "5">>)]

PaymentHeaders ==
    {NoHeader, NotBase64, BadShape,
     Credential("exact", "base-sepolia"), Credential("exact", "base"),
     Credential("other", "base-sepolia")}

VerifyData(keys, isValid, invalidReason, payer) ==
    [keys |-> keys, isValid |-> isValid, invalidReason |-> invalidReason,
     payer |-> payer]

JsonReply(status, data) ==
    [transport |-> "ok", status |-> status, json |-> TRUE, data |-> data]

TransportError == [transport |-> "error"]

NotJson(status) == [transport |-> "ok", status |-> status, json |-> FALSE]

ValidBody == VerifyData({"isValid", "payer"}, TRUE, "null", "0xPAYER")

\* replies drawn for POST /verify
VerifyReplies ==
    {TransportError, NotJson(502),
     JsonReply(200, ValidBody),
     JsonReply(500, ValidBody),
     JsonReply(200, VerifyData({"isValid", "invalidReason", "payer"}, FALSE,
                               "insufficient_funds", "null")),
     JsonReply(200, VerifyData({"isValid", "invalidReason"}, FALSE,
                               "insufficient_funds", "null")),
     JsonReply(200, VerifyData({"isValid", "payer"}, FALSE, "null", "null"))}

SettleData(keys, success, errorReason, transaction) ==
    [keys |-> keys, success |-> success, errorReason |-> errorReason,
     transaction |-> transaction, network |-> "base-sepolia", payer |-> "0xPAYER"]

\* replies drawn for POST /settle
SettleReplies ==
    {TransportError,
     JsonReply(200, SettleData({"success", "transaction", "network", "payer"},
                               TRUE, "null", "0xTX")),
     JsonReply(200, SettleData({"success", "errorReason"}, FALSE,
                               "invalid_nonce", "null"))}

\* status codes drawn for the protected handler
HandlerStatuses == {199, 200, 299, 300, 404}

-----------------------------------------------------------------------------
(* Registration *)

\* the closure _create_middleware returns: the values it captured
Closure(config, p, f) ==
    IF ~p.ok THEN Raise("ValueError")     \* "Invalid price: ..."
    ELSE IF ~f.ok THEN f
    ELSE Ok([config              |-> config,
             max_amount_required |-> p.val.max_amount_required,
             asset_address       |-> p.val.asset_address,
             eip712_domain       |-> p.val.eip712_domain,
             facilitator         |-> f.val])

\* PaymentMiddleware._create_middleware(config, next_app), up to the closure
\* it returns. Every failure of the price helper is re-raised as ValueError.
create_middleware(config) ==
    Closure(config,
            process_price_to_atomic_amount(config.price, config.network),
            FacilitatorClient(config.facilitator_config))

\* the chain after the loop of _apply_middleware, given the layer created for
\* each config: the first one that raised ends the call
Wrapped(made, current_wsgi_app) ==
    IF \A i \in DOMAIN made : made[i].ok
    THEN Ok(current_wsgi_app \o [i \in DOMAIN made |-> made[i].val])
    ELSE made[CHOOSE i \in DOMAIN made :
                ~made[i].ok /\ \A j \in 1..(i - 1) : made[j].ok]

\* PaymentMiddleware._apply_middleware: starting from the current app.wsgi_app,
\* wrap one layer per entry of middleware_configs, all of them on every call
apply_middleware(configs, current_wsgi_app) ==
    Wrapped([i \in 1..Len(configs) |-> create_middleware(configs[i])],
            current_wsgi_app)

Idle == pc = "idle"

\* the assignments that end add(): app.wsgi_app is assigned only when no layer
\* raised
Applied(chain) ==
    /\ wsgi_app' = IF chain.ok THEN chain.val ELSE wsgi_app
    /\ raised' = IF chain.ok THEN "none" ELSE chain.exc

\* PaymentMiddleware.add(**cfg): the config is appended first, then the chain
\* is rebuilt
add(cfg) ==
    /\ Idle
    /\ Len(middleware_configs) < MaxRules
    /\ middleware_configs' = Append(middleware_configs, cfg)
    /\ Applied(apply_middleware(Append(middleware_configs, cfg), wsgi_app))
    /\ UNCHANGED <<helpers, concurrency, fastapi_middlewares, fastapi_rules, request, pc, depth,
                   frames, response, g, calls, trace>>

\* the closure require_payment returns: the values it captured
FastapiClosure(args, asset, parsed, f) ==
    IF ~asset.ok THEN asset
    ELSE IF ~parsed.ok THEN Raise("ValueError")   \* "Invalid amount: ..."
    ELSE IF ~f.ok THEN f
    ELSE Ok([args |-> args, asset |-> asset.val, parsed_amount |-> parsed.val,
             facilitator |-> f.val])

\* parse_money(amount, asset, network_id) of require_payment
FastapiParsed(args, asset) ==
    IF asset.ok THEN parse_money(args.amount, asset.val, args.network_id)
    ELSE asset

\* asset = get_usdc_address(get_chain_id(network_id)) when no asset is given
FastapiAsset(args, cid) ==
    IF args.asset # "" THEN Ok(args.asset)
    ELSE IF cid.ok THEN fastapi_get_usdc_address(cid.val)
    ELSE cid

FastapiBuild(args, asset) ==
    FastapiClosure(args, asset, FastapiParsed(args, asset),
                   FacilitatorClient([kind |-> "str", url |-> args.facilitator_url]))

\* require_payment(amount, pay_to_address, path, asset="", ..., facilitator_url,
\* network_id), up to the closure it returns. validate_call admits a str or an
\* int amount only; the facilitator URL reaches FacilitatorClient as a str.
require_payment(args) ==
    IF args.amount.kind \notin {"str", "int"} THEN Raise("ValidationError")
    ELSE FastapiBuild(args, FastapiAsset(args, get_chain_id(args.network_id)))

\* the require_payment arguments that correspond to an add() configuration
FastapiArgs(cfg) ==
    [amount |-> cfg.price, pay_to_address |-> cfg.pay_to_address,
     path |-> cfg.path, asset |-> "", description |-> cfg.description,
     mime_type |-> cfg.mime_type,
     max_deadline_seconds |-> cfg.max_deadline_seconds,
     output_schema |-> cfg.output_schema,
     facilitator_url |-> IF cfg.facilitator_config.kind = "dict"
                         THEN cfg.facilitator_config.url
                         ELSE DefaultFacilitatorUrl,
     network_id |-> cfg.network, resource |-> cfg.resource]

\* app.middleware("http")(...): the middleware is installed only if
\* require_payment returned one
Installed(m) ==
    /\ fastapi_middlewares' = IF m.ok THEN Append(fastapi_middlewares, m.val)
                              ELSE fastapi_middlewares
    /\ raised' = IF m.ok THEN "none" ELSE m.exc

\* app.middleware("http")(require_payment(...))
fastapi_register(cfg) ==
    /\ Idle
    /\ Len(fastapi_rules) < MaxRules
    /\ fastapi_rules' = Append(fastapi_rules, FastapiArgs(cfg))
    /\ Installed(require_payment(FastapiArgs(cfg)))
    /\ UNCHANGED <<helpers, concurrency, middleware_configs, wsgi_app, request, pc, depth, frames,
                   response, g, calls, trace>>

-----------------------------------------------------------------------------
(* Serving a request *)

NoRequest == [fw |-> "none"]

\* no helper has been applied
NoCall == [fn |-> "none"]

\* the threads of the WSGI server, each serving one request at a time
Threads == {1, 2}

NoResponse == [status |-> 0, headers |-> <<>>, body |-> [none |-> TRUE]]

EmptyG == [set |-> FALSE]

\* the layers a request of the framework passes, innermost first
Chain(fw) == IF fw = "flask" THEN wsgi_app ELSE fastapi_middlewares

\* request.url
UrlOf(path) == HttpPrefix \o <<"s">> \o path

Header(name, value) == [name |-> name, value |-> value]

\* the response of the protected handler
HandlerResponse(status) ==
    [status  |-> status,
     headers |-> <<Header("Content-Type", <<"application/json">>)>>,
     body    |-> [handler |-> TRUE]]

\* a client sends a request; it enters the outermost layer
Request(fw, path, header) ==
    /\ Idle
    /\ request' = [fw |-> fw, path |-> path, header |-> header]
    /\ pc' = "dispatch"
    /\ depth' = Len(Chain(fw))
    /\ raised' = "none"
    /\ UNCHANGED <<helpers, concurrency, gates, frames,
                   response, g, calls, trace>>

\* a layer that hands the configured resource and output_schema on as they are
flask_payment_requirements_raw(layer, req) ==
    LET config == layer.config
    IN  PaymentRequirements(
            [scheme              |-> "exact",
             network             |-> config.network,
             asset               |-> layer.asset_address,
             max_amount_required |-> layer.max_amount_required,
             resource            |-> config.resource,
             description         |-> config.description,
             mime_type           |-> config.mime_type,
             pay_to              |-> config.pay_to_address,
             max_timeout_seconds |-> config.max_deadline_seconds,
             output_schema       |-> config.output_schema,
             extra               |-> layer.eip712_domain])

\* the payment_requirements list a Flask layer builds for the request
flask_payment_requirements(layer, req) ==
    LET config == layer.config
    IN  PaymentRequirements(
            [scheme              |-> "exact",
             network             |-> config.network,
             asset               |-> layer.asset_address,
             max_amount_required |-> layer.max_amount_required,
             resource            |-> IF config.resource # <<>> THEN config.resource
                                     ELSE UrlOf(req.path),
             description         |-> config.description,
             mime_type           |-> config.mime_type,
             pay_to              |-> config.pay_to_address,
             max_timeout_seconds |-> config.max_deadline_seconds,
             output_schema       |-> IF config.output_schema = "None" THEN "{}"
                                     ELSE config.output_schema,
             extra               |-> layer.eip712_domain])

\* x402_response(error) of a layer: the 402 it starts
x402_response(payment_requirements, error) ==
    [status  |-> 402,
     headers |-> <<Header("Content-Type", <<"application/json">>),
                   Header("Content-Length", <<"len(body)">>)>>,
     body    |-> [x402Version |-> x402_VERSION,
                  accepts     |-> <<model_dump(payment_requirements)>>,
                  error       |-> error]]

\* a selection that compares the scheme only
Selects_schemeonly(req, payment) == req.scheme = payment.scheme

\* next(req for req in payment_requirements if ...): the one entry, if the
\* credential's scheme and network both equal its own
Selects(req, payment) == req.scheme = payment.scheme /\ req.network = payment.network

\* ResponseWrapper.__call__: every suspended layer's wrapper records the status
\* before it hands the call on to the start_response it wraps
StartResponse(fs, status) == [i \in DOMAIN fs |-> [fs[i] EXCEPT !.status_code = status]]

\* a gate event: what happened, in which layer (0: the application), and the
\* status started with it, if any
Event(ev, layer, status) == [ev |-> ev, layer |-> layer, status |-> status]

\* a gate whose suspended layers are never resumed
Returned_suspended(fs) == IF fs = <<>> THEN "done" ELSE "suspended"

\* where control goes when a layer returns to its caller
Returned(fs) == IF fs = <<>> THEN "done" ELSE "unwind"

Pop(fs) == SubSeq(fs, 1, Len(fs) - 1)

\* a layer ends the request with a 402 before it calls next_app
Challenge(reqs, error, fs) ==
    /\ response' = x402_response(reqs, error)
    /\ frames' = StartResponse(fs, 402)
    /\ pc' = Returned(fs)
    /\ trace' = Append(trace, Event("402", depth, 402))

\* an exception leaves the gate: it passes every suspended layer
Propagate(exc) ==
    /\ pc' = "error"
    /\ raised' = exc
    /\ frames' = <<>>

\* a gate that runs its calls on one loop made at import time
new_event_loop_shared(t) == 1

\* loop = asyncio.new_event_loop(): a new loop object, named after the thread
\* that made it (a thread holds one loop at a time)
new_event_loop(t) == t

\* asyncio.set_event_loop(loop); loop.run_until_complete(...): the loop becomes
\* the current loop of the running thread and runs until the call is over
set_event_loop(loop) ==
    /\ current_loop' = [current_loop EXCEPT ![thread] = loop]
    /\ event_loops' = [event_loops EXCEPT ![loop] = "running"]

\* finally: loop.close()
close(loop) ==
    /\ event_loops' = [event_loops EXCEPT ![loop] = "closed"]
    /\ UNCHANGED current_loop

\* a gate that applies its rule to every path
SkipsLayer_never(layer, req) == FALSE

\* if not path_is_match(config["path"], request.path): return next_app(...)
SkipsLayer(layer, req) == ~flask_path_is_match(layer.config.path, req.path)

\* facilitator.verify(payment, selected_payment_requirements), as sent
VerifyCall(layer, payment, selected_payment_requirements) ==
    [op |-> "verify", layer |-> layer, payment |-> payment,
     requirements |-> selected_payment_requirements,
     returned |-> FALSE, reply |-> TransportError, result |-> Raise("pending")]

\* PaymentMiddleware._create_middleware.middleware, from its entry to the
\* Verify call or to the return that ends it earlier
FlaskMiddleware ==
    /\ pc = "dispatch" /\ request.fw = "flask" /\ depth > 0
    /\ LET layer == wsgi_app[depth]
           reqs  == flask_payment_requirements(layer, request)
           pay   == DecodePayment(request.header)
       IN  IF SkipsLayer(layer, request)
           THEN /\ depth' = depth - 1
                /\ UNCHANGED <<pc, raised, frames, response, calls, trace>>
           ELSE IF ~reqs.ok
           THEN /\ Propagate(reqs.exc)
                /\ UNCHANGED <<depth, response, calls, trace>>
           ELSE IF ~request.header.present
           THEN /\ Challenge(reqs.val, <<"No X-PAYMENT header provided">>, frames)
                /\ UNCHANGED <<depth, raised, calls>>
           ELSE IF ~pay.ok
           THEN /\ Challenge(reqs.val,
                             <<"Invalid payment header format: ", pay.exc>>, frames)
                /\ UNCHANGED <<depth, raised, calls>>
           ELSE IF ~Selects(reqs.val, pay.val)
           THEN /\ Challenge(reqs.val, <<"No matching payment requirements found">>,
                             frames)
                /\ UNCHANGED <<depth, raised, calls>>
           ELSE /\ pc' = "verify"
                /\ frames' = Append(frames,
                                [layer |-> depth, payment |-> pay.val,
                                 selected_payment_requirements |-> reqs.val,
                                 status_code |-> 0,
                                 loop |-> new_event_loop(thread)])
                /\ calls' = Append(calls, VerifyCall(depth, pay.val, reqs.val))
                /\ trace' = Append(trace, Event("verify", depth, 0))
                /\ UNCHANGED <<depth, raised, response>>
    /\ IF pc' = "verify" THEN set_event_loop(new_event_loop(thread))
       ELSE UNCHANGED <<event_loops, current_loop>>
    /\ UNCHANGED <<helpers, thread, parked, gates, request, g>>

\* the last call, once the Facilitator has replied: its reply and what the
\* client made of it
Replied(cs, reply, result) ==
    [cs EXCEPT ![Len(cs)] =
        [@ EXCEPT !.returned = TRUE, !.reply = reply, !.result = result]]

\* a gate that never looks at is_valid
VerifyRejected_never(verify_response) == FALSE

\* if not verify_response.is_valid
VerifyRejected(verify_response) == ~verify_response.is_valid

\* the same layer after facilitator.verify returned or raised, up to next_app
FlaskVerifyReturn(reply) ==
    /\ pc = "verify" /\ request.fw = "flask"
    /\ LET top == frames[Len(frames)]
           vr  == verify(reply)
       IN  /\ calls' = Replied(calls, reply, vr)
           /\ IF ~vr.ok
              THEN /\ Propagate(vr.exc)
                   /\ UNCHANGED <<depth, response, g, trace>>
              ELSE IF VerifyRejected(vr.val) /\ vr.val.invalid_reason = "null"
              THEN \* "Invalid payment: " + None
                   /\ Propagate("TypeError")
                   /\ UNCHANGED <<depth, response, g, trace>>
              ELSE IF VerifyRejected(vr.val)
              THEN /\ Challenge(top.selected_payment_requirements,
                                <<"Invalid payment: ", vr.val.invalid_reason>>,
                                Pop(frames))
                   /\ UNCHANGED <<depth, raised, g>>
              ELSE /\ g' = [set |-> TRUE,
                            payment_details |-> top.selected_payment_requirements,
                            verify_response |-> vr.val]
                   /\ depth' = depth - 1
                   /\ pc' = "dispatch"
                   /\ UNCHANGED <<raised, frames, response, trace>>
    /\ close(frames[Len(frames)].loop)
    /\ UNCHANGED <<helpers, thread, parked, gates, request>>

\* the application below the gate runs the protected handler and starts its
\* response
Handler(status) ==
    /\ pc = "dispatch" /\ depth = 0
    /\ response' = HandlerResponse(status)
    /\ frames' = StartResponse(frames, status)
    /\ pc' = Returned(frames)
    /\ trace' = Append(trace, Event("handler", 0, status))
    /\ UNCHANGED <<helpers, concurrency, gates, raised,
                   request, depth, g, calls>>

\* a status check without its upper bound
is_2xx_open(status_code) == status_code >= 200

\* response_wrapper.status_code >= 200 and response_wrapper.status_code < 300
is_2xx(status_code) == status_code >= 200 /\ status_code < 300

\* a Settle call against requirements rebuilt without the request's URL
SettleCall_rebuilt(top) ==
    [op |-> "settle", layer |-> top.layer, payment |-> top.payment,
     requirements |-> [top.selected_payment_requirements EXCEPT !.resource = <<>>],
     returned |-> FALSE, reply |-> TransportError, result |-> Raise("pending")]

\* facilitator.settle(payment, selected_payment_requirements), as sent by the
\* suspended layer
SettleCall(top) ==
    [op |-> "settle", layer |-> top.layer, payment |-> top.payment,
     requirements |-> top.selected_payment_requirements,
     returned |-> FALSE, reply |-> TransportError, result |-> Raise("pending")]

\* a suspended Flask layer after next_app returned: the status check, up to the
\* Settle call or to the layer's return
FlaskAfterNext ==
    /\ pc = "unwind" /\ request.fw = "flask"
    /\ LET top == frames[Len(frames)]
       IN  IF is_2xx(top.status_code)
           THEN /\ pc' = "settle"
                /\ calls' = Append(calls, SettleCall(top))
                /\ trace' = Append(trace, Event("settle", top.layer, 0))
                /\ frames' = [frames EXCEPT ![Len(frames)].loop = new_event_loop(thread)]
                /\ set_event_loop(new_event_loop(thread))
           ELSE /\ frames' = Pop(frames)
                /\ pc' = Returned(Pop(frames))
                /\ UNCHANGED <<calls, trace, event_loops, current_loop>>
    /\ UNCHANGED <<helpers, thread, parked, gates, raised,
                   request, depth, response, g>>

\* ResponseWrapper.add_header: appended to the list handed to start_response
add_header(resp, name, value) ==
    [resp EXCEPT !.headers = Append(@, Header(name, value))]

\* a gate that attaches the header to whatever Settle returned
SettleSucceeded_any(sr) == sr.ok

\* settle returned (did not raise) and settle_response.success is true
SettleSucceeded(sr) == sr.ok /\ sr.val.success

\* a gate that answers a failed Settle with a 402 of its own
AfterSettle_402(resp, sr) ==
    IF SettleSucceeded(sr)
    THEN add_header(resp, "X-PAYMENT-RESPONSE", EncodeSettle(sr.val))
    ELSE [status  |-> 402,
          headers |-> <<Header("Content-Type", <<"application/json">>)>>,
          body    |-> [x402Version |-> x402_VERSION, accepts |-> <<>>,
                       error |-> <<"Settle failed">>]]

\* the response after the try block around facilitator.settle: the header is
\* added on success; a failure is printed and the response stays as it is
AfterSettle(resp, sr) ==
    IF SettleSucceeded(sr)
    THEN add_header(resp, "X-PAYMENT-RESPONSE", EncodeSettle(sr.val))
    ELSE resp

\* the same layer after facilitator.settle returned or raised: the header on
\* success, a printed line otherwise; the layer returns the response it got
FlaskSettleReturn(reply) ==
    /\ pc = "settle" /\ request.fw = "flask"
    /\ LET sr == settle(reply)
       IN  /\ calls' = Replied(calls, reply, sr)
           /\ response' = AfterSettle(response, sr)
    /\ frames' = Pop(frames)
    /\ pc' = Returned(Pop(frames))
    /\ close(frames[Len(frames)].loop)
    /\ UNCHANGED <<helpers, thread, parked, gates, raised,
                   request, depth, g, trace>>

\* the fields of a SettleResponse object
SettleResponseFields == {"success", "error_reason", "transaction", "network", "payer"}

\* settle_response.<name>: a pydantic model raises AttributeError for a name
\* that is no field
getattr(obj, name) ==
    IF name \in SettleResponseFields THEN Ok(obj[name]) ELSE Raise("AttributeError")

\* x402_response(error) of the FastAPI middleware: JSONResponse(..., 402)
fastapi_x402_response(payment_requirements, error) ==
    [status  |-> 402,
     headers |-> <<Header("Content-Type", <<"application/json">>)>>,
     body    |-> [x402Version |-> x402_VERSION,
                  accepts     |-> <<model_dump(payment_requirements)>>,
                  error       |-> error]]

\* return x402_response("Settle failed: " + settle_response.error), inside the
\* try block: an exception of the expression is caught by except Exception
SettleFailedReport(payment_requirements, error) ==
    IF error.ok
    THEN fastapi_x402_response(payment_requirements, <<"Settle failed: ", error.val>>)
    ELSE fastapi_x402_response(payment_requirements, <<"Settle failed">>)

\* the FastAPI middleware after a 2xx handler response, from the result of
\* facilitator.settle (sr) to the response it returns
fastapi_after_settle(resp, sr, payment_requirements) ==
    IF ~sr.ok
    THEN fastapi_x402_response(payment_requirements, <<"Settle failed">>)
    ELSE IF sr.val.success
    THEN add_header(resp, "X-PAYMENT-RESPONSE", EncodeSettle(sr.val))
    ELSE SettleFailedReport(payment_requirements, getattr(sr.val, "error"))

\* the response (or the error) has left the server
Finish ==
    /\ pc \in {"done", "error"}
    /\ pc' = "idle"
    /\ request' = NoRequest
    /\ depth' = 0
    /\ frames' = <<>>
    /\ response' = NoResponse
    /\ g' = EmptyG
    /\ calls' = <<>>
    /\ trace' = <<>>
    /\ raised' = "none"
    /\ UNCHANGED <<helpers, concurrency, gates>>

\* what a thread holds of the request it serves: its stack, its contexts
\* (flask.g and the request are context-local) and what it has done so far
Registers ==
    [raised |-> raised, request |-> request, pc |-> pc, depth |-> depth,
     frames |-> frames, response |-> response, g |-> g, calls |-> calls,
     trace |-> trace]

IdleThread ==
    [raised |-> "none", request |-> NoRequest, pc |-> "idle", depth |-> 0,
     frames |-> <<>>, response |-> NoResponse, g |-> EmptyG, calls |-> <<>>,
     trace |-> <<>>]

\* the scheduler takes the running thread off the processor and resumes
\* thread t where it stopped
Switch(t) ==
    /\ t # thread
    /\ thread' = t
    /\ parked' = [parked EXCEPT ![thread] = Registers, ![t] = IdleThread]
    /\ raised' = parked[t].raised
    /\ request' = parked[t].request
    /\ pc' = parked[t].pc
    /\ depth' = parked[t].depth
    /\ frames' = parked[t].frames
    /\ response' = parked[t].response
    /\ g' = parked[t].g
    /\ calls' = parked[t].calls
    /\ trace' = parked[t].trace
    /\ UNCHANGED <<helpers, gates, event_loops, current_loop>>

-----------------------------------------------------------------------------
(* Specification *)

Init ==
    /\ middleware_configs = <<>>
    /\ wsgi_app = <<>>
    /\ fastapi_middlewares = <<>>
    /\ fastapi_rules = <<>>
    /\ raised = "none"
    /\ request = NoRequest
    /\ pc = "idle"
    /\ depth = 0
    /\ frames = <<>>
    /\ response = NoResponse
    /\ g = EmptyG
    /\ calls = <<>>
    /\ trace = <<>>
    /\ fn_call = NoCall
    /\ fn_result = NoCall
    /\ thread = 1
    /\ parked = [t \in Threads |-> IdleThread]
    /\ event_loops = [t \in Threads |-> "none"]
    /\ current_loop = [t \in Threads |-> 0]

Next ==
    \/ \E cfg \in FlaskRules(middleware_configs, fastapi_rules) : add(cfg)
    \/ \E cfg \in FastapiRules(middleware_configs) : fastapi_register(cfg)
    \/ \E fw \in AppFrameworks(middleware_configs, fastapi_rules),
          path \in RequestPaths, header \in PaymentHeaders :
          Request(fw, path, header)
    \/ FlaskMiddleware
    \/ \E reply \in VerifyReplies : FlaskVerifyReturn(reply)
    \/ \E status \in HandlerStatuses : Handler(status)
    \/ FlaskAfterNext
    \/ \E reply \in SettleReplies : FlaskSettleReturn(reply)
    \/ Finish

Spec == Init /\ [][Next]_vars

\* the steps of a request that is being served: the layers, the Facilitator's
\* replies and the handler
Serve ==
    \/ FlaskMiddleware
    \/ \E reply \in VerifyReplies : FlaskVerifyReturn(reply)
    \/ \E status \in HandlerStatuses : Handler(status)
    \/ FlaskAfterNext
    \/ \E reply \in SettleReplies : FlaskSettleReturn(reply)

\* an application with up to MaxRules of the rules that register, and the
\* requests it serves
NextLive ==
    \/ \E cfg \in FlaskRules(middleware_configs, fastapi_rules)
                      \cap {RuleA, RuleB, RuleGlob} : add(cfg)
    \/ \E fw \in AppFrameworks(middleware_configs, fastapi_rules),
          path \in RequestPaths, header \in PaymentHeaders :
          Request(fw, path, header)
    \/ Serve
    \/ Finish

\* the server runs the call stack of a request it accepted: a layer that can
\* take its next step takes it, every Facilitator call returns or fails, and
\* the handler returns
SpecLive == Init /\ [][NextLive]_vars /\ WF_vars(Serve)

\* two threads serving requests of one Flask application at the same time; its
\* rules are added while no request is being served. The Facilitator's
\* replies: valid, invalid, no connection; a settlement that succeeds or fails.
NextConcurrent ==
    \/ /\ \A t \in Threads : parked[t].pc = "idle"
       /\ \E cfg \in {RuleA, RuleB} \ {middleware_configs[i] : i \in DOMAIN middleware_configs} :
             add(cfg)
    \/ /\ wsgi_app # <<>>
       /\ \E path \in {PathA, PathB}, header \in {NoHeader, Credential("exact", "base-sepolia")} :
             Request("flask", path, header)
    \/ FlaskMiddleware
    \/ \E reply \in {r \in VerifyReplies : r.transport = "error" \/ r.status = 200} :
          FlaskVerifyReturn(reply)
    \/ \E status \in {200, 404} : Handler(status)
    \/ FlaskAfterNext
    \/ \E reply \in SettleReplies : FlaskSettleReturn(reply)
    \/ Finish
    \/ \E t \in Threads : Switch(t)

SpecConcurrent == Init /\ [][NextConcurrent]_vars

-----------------------------------------------------------------------------
(* The helpers applied on their own *)

\* the digits drawn after the decimal point, and the integer parts before it
FracDigits == {"1", "2", "9"}

IntParts == {<<"0">>, <<"1">>}

FracParts == UNION {[1..k -> FracDigits] : k \in 0..MaxFracDigits}

\* the decimal string D of an integer part and a fractional part
DecimalText(ip, fp) == IF fp = <<>> THEN ip ELSE ip \o <<".">> \o fp

\* the Money price "$" + D
Dollar(ip, fp) == [kind |-> "str", text |-> <<"$">> \o DecimalText(ip, fp)]

\* process_price_to_atomic_amount("$" + D, network)
NormalizeMoney(ip, fp, network) ==
    /\ fn_call = NoCall
    /\ fn_call' = [fn |-> "process_price_to_atomic_amount", price |-> "money",
                   ip |-> ip, fp |-> fp, network |-> network]
    /\ fn_result' = process_price_to_atomic_amount(Dollar(ip, fp), network)
    /\ UNCHANGED <<serving, concurrency>>

\* the result of a helper that returns an int or a bool rather than a tuple:
\* the returned value under the name of its type, an exception as it is
Typed(type, r) == IF r.ok THEN (type :> r.val) @@ [ok |-> TRUE] ELSE r


\* parse_money("$" + D, <the network's stablecoin>, network)
ParseMoney(ip, fp, network) ==
    /\ fn_call = NoCall
    /\ fn_call' = [fn |-> "parse_money", price |-> "money",
                   ip |-> ip, fp |-> fp, network |-> network]
    /\ fn_result' = Typed("int",
          parse_money(Dollar(ip, fp),
                                    get_usdc_address(get_chain_id(network).val).val,
                                    network))
    /\ UNCHANGED <<serving, concurrency>>

\* one helper is applied, once, to arguments drawn from the sets above
Once(inputs) == IF fn_call = NoCall THEN inputs ELSE {}

\* TokenAmount(amount=..., asset=TokenAsset(...)): the field validators run at
\* construction; amount must pass int(v), decimals must lie in 0..255
TokenAmount(amount, asset) ==
    IF ~IntParses(amount) \/ asset.decimals < 0 \/ asset.decimals > 255
    THEN Raise("ValidationError")
    ELSE Ok([kind |-> "token", amount |-> amount, asset |-> asset])

TokenAmounts ==
    {<<"5">>, <<"0">>, <<"0", "0", "7">>, <<"+", "7">>, <<"-", "5">>,
     <<"1", "0", "0", "0", "0", "0", "0">>, <<"1", ".", "5">>, <<>>}

TokenAssets ==
    [address  : {"0xT0KEN", UsdcBase},
     decimals : {0, 6, 18, 256},
     eip712   : [name : {"Tok", "USD Coin"}, version : {"1", "2"}]]

\* networks a caller may pass next to a TokenAmount: the branch reads none
TokenNetworks == SupportedNetworks \cup {"solana"}

\* price = TokenAmount(...); process_price_to_atomic_amount(price, network)
NormalizeToken(amount, asset, network) ==
    /\ fn_call = NoCall
    /\ fn_call' = [fn |-> "process_price_to_atomic_amount", price |-> "token",
                   amount |-> amount, asset |-> asset, network |-> network,
                   given |-> amount, round |-> 1]
    /\ fn_result' = IF TokenAmount(amount, asset).ok
                    THEN process_price_to_atomic_amount(TokenAmount(amount, asset).val, network)
                    ELSE TokenAmount(amount, asset)
    /\ UNCHANGED <<serving, concurrency>>

\* the returned atomic amount fed back as a TokenAmount of the same asset
NormalizeTokenAgain(network) ==
    /\ fn_call.fn = "process_price_to_atomic_amount"
    /\ fn_call.price = "token"
    /\ fn_call.round = 1
    /\ fn_result.ok
    /\ fn_call' = [fn_call EXCEPT !.amount = fn_result.val.max_amount_required,
                                  !.network = network,
                                  !.round = 2]
    /\ fn_result' =
          IF TokenAmount(fn_result.val.max_amount_required, fn_call.asset).ok
          THEN process_price_to_atomic_amount(
                   TokenAmount(fn_result.val.max_amount_required, fn_call.asset).val, network)
          ELSE TokenAmount(fn_result.val.max_amount_required, fn_call.asset)
    /\ UNCHANGED <<serving, concurrency>>

\* "/foo", "/bar/*", "regex:^/baz/\d+$", "/b?r/1", "regex:/ba.*3",
\* "regex:^/fo+$", "*", "regex:", ""
PathPatterns ==
    {<<"/", "f", "o", "o">>,
     <<"/", "b", "a", "r", "/", "*">>,
     <<"r", "e", "g", "e", "x", ":", "^", "/", "b", "a", "z", "/", "\\", "d", "+", "$">>,
     <<"/", "b", "?", "r", "/", "1">>,
     <<"r", "e", "g", "e", "x", ":", "/", "b", "a", ".", "*", "3">>,
     <<"r", "e", "g", "e", "x", ":", "^", "/", "f", "o", "+", "$">>,
     <<"*">>,
     <<"r", "e", "g", "e", "x", ":">>,
     <<>>}

\* the path of test_path_pattern_matching
ExamplePathList ==
    <<<<"/", "f", "o", "o">>, <<"/", "b", "a", "r", "/", "*">>, <<"r", "e", "g", "e", "x", ":", "^", "/", "b", "a", "z", "/", "\\", "d", "+", "$">>>>

\* path arguments: one pattern, or a list of patterns (the empty list included)
PathArgs ==
    [kind : {"str"}, pattern : PathPatterns]
    \cup {[kind |-> "list", patterns |-> ps] :
              ps \in UNION {[1..k -> PathPatterns] : k \in 0..MaxPathList}}
    \cup {[kind |-> "list", patterns |-> ExamplePathList]}

\* "/foo", "/bar/123", "/baz/abc", "/baz/7", "/bar/1", "/fo", ""
MatchedPaths ==
    {<<"/", "f", "o", "o">>,
     <<"/", "b", "a", "r", "/", "1", "2", "3">>,
     <<"/", "b", "a", "z", "/", "a", "b", "c">>,
     <<"/", "b", "a", "z", "/", "7">>,
     <<"/", "b", "a", "r", "/", "1">>,
     <<"/", "f", "o">>,
     <<>>}

\* _path_is_match(path, request_path) of the FastAPI gate, path_is_match(path,
\* request.path) of the Flask gate
MatchPath(fw, path, request_path) ==
    /\ fn_call = NoCall
    /\ fn_call' = [fn |-> "path_is_match", fw |-> fw, path |-> path,
                   request_path |-> request_path]
    /\ fn_result' = Typed("bool",
                          Ok(IF fw = "fastapi" THEN path_is_match(path, request_path)
                             ELSE flask_path_is_match(path, request_path)))
    /\ UNCHANGED <<serving, concurrency>>

\* prices handed to the gates and to the price helper: "$1.00", "0.5", 2,
\* "$0.000001", "$abc", "" and a float, which is neither Money nor TokenAmount
PriceArgs ==
    {[kind |-> "str", text |-> <<"$", "1", ".", "0", "0">>],
     [kind |-> "str", text |-> <<"0", ".", "5">>],
     [kind |-> "int", value |-> 2],
     [kind |-> "str", text |-> <<"$", "0", ".", "0", "0", "0", "0", "0", "1">>],
     [kind |-> "str", text |-> <<"$", "a", "b", "c">>],
     [kind |-> "str", text |-> <<>>],
     [kind |-> "float"]}

\* facilitator_config: None, {} and {"url": u} for u = "http://f", "https://f/",
\* "https://f//", "http://", "ftp://f", "f"
FacilitatorConfigs ==
    {[kind |-> "none"], [kind |-> "dict", has_url |-> FALSE, url |-> <<>>]}
    \cup {[kind |-> "dict", has_url |-> TRUE, url |-> u] :
             u \in {HttpPrefix \o <<"f">>, HttpsPrefix \o <<"f", "/">>,
                    HttpsPrefix \o <<"f", "/", "/">>, HttpPrefix,
                    <<"f", "t", "p", ":", "/", "/", "f">>, <<"f">>}}

\* one configuration handed to both gate builders, each on a new application:
\* PaymentMiddleware._create_middleware(cfg, app) and require_payment(...)
\* with the same values; parsed is require_payment's local parsed_amount
Register(cfg) ==
    /\ fn_call = NoCall
    /\ fn_call' = [fn |-> "register", cfg |-> cfg]
    /\ fn_result' =
          [flask   |-> create_middleware(cfg),
           fastapi |-> require_payment(FastapiArgs(cfg)),
           parsed  |-> IF cfg.price.kind \in {"str", "int"}
                       THEN FastapiParsed(FastapiArgs(cfg),
                                FastapiAsset(FastapiArgs(cfg), get_chain_id(cfg.network)))
                       ELSE Raise("ValidationError")]
    /\ UNCHANGED <<serving, concurrency>>

\* process_price_to_atomic_amount(price, network), for any price
NormalizePrice(price, network) ==
    /\ fn_call = NoCall
    /\ fn_call' = [fn |-> "process_price_to_atomic_amount", price |-> "any",
                   raw |-> price, network |-> network]
    /\ fn_result' = process_price_to_atomic_amount(price, network)
    /\ UNCHANGED <<serving, concurrency>>

NextHelpers ==
    \/ \E ip \in Once(IntParts), fp \in FracParts, network \in SupportedNetworks :
          NormalizeMoney(ip, fp, network)
    \/ \E ip \in Once(IntParts), fp \in FracParts, network \in SupportedNetworks :
          ParseMoney(ip, fp, network)
    \/ \E amount \in Once(TokenAmounts), asset \in TokenAssets, network \in TokenNetworks :
          NormalizeToken(amount, asset, network)
    \/ \E network \in TokenNetworks : NormalizeTokenAgain(network)
    \/ \E fw \in Once(Frameworks), path \in PathArgs, request_path \in MatchedPaths :
          MatchPath(fw, path, request_path)
    \/ \E price \in Once(PriceArgs), network \in TokenNetworks, fc \in FacilitatorConfigs :
          Register([Rule(price, "0x1", [kind |-> "str", pattern |-> PathA], network)
                      EXCEPT !.facilitator_config = fc])
    \/ \E price \in Once(PriceArgs \cup {TokenPrice}), network \in TokenNetworks :
          NormalizePrice(price, network)

SpecHelpers == Init /\ [][NextHelpers]_vars

-----------------------------------------------------------------------------
(* Properties *)

VerifyIdx == {i \in DOMAIN calls : calls[i].op = "verify"}

SettleIdx == {i \in DOMAIN calls : calls[i].op = "settle"}

HandlerIdx == {k \in DOMAIN trace : trace[k].ev = "handler"}

\* the Flask layers whose rule applies to the request's path
MatchingLayers ==
    {d \in DOMAIN wsgi_app :
        flask_path_is_match(wsgi_app[d].config.path, request.path)}

\* no installed layer of the request's framework applies to its path
NoRuleMatches ==
    IF request.fw = "flask" THEN MatchingLayers = {}
    ELSE \A d \in DOMAIN fastapi_middlewares :
            ~path_is_match(fastapi_middlewares[d].args.path, request.path)

AcceptedVerify(i) ==
    /\ calls[i].op = "verify"
    /\ calls[i].returned
    /\ calls[i].result.ok
    /\ calls[i].result.val.is_valid

PaymentResponseHeaders ==
    {h \in DOMAIN response.headers : response.headers[h].name = "X-PAYMENT-RESPONSE"}

\* C1: the protected handler runs only after every layer whose rule matches the
\* path has had Verify return isValid=true for the request's own credential;
\* with a missing or undecodable header, a credential that selects no
\* requirements, or a Verify result that is not valid, it never runs. No
\* FastAPI gate is ever installed (require_payment raises for every argument),
\* so a FastAPI handler runs only on a path no installed gate applies to.
C1_HandlerOnlyAfterValidVerify ==
    (HandlerIdx # {}) =>
        /\ request.fw = "fastapi" => NoRuleMatches
        /\ \A i \in VerifyIdx : AcceptedVerify(i)
        /\ \A d \in (IF request.fw = "flask" THEN MatchingLayers ELSE {}) :
            /\ request.header.present
            /\ DecodePayment(request.header).ok
            /\ \E i \in VerifyIdx :
                /\ calls[i].layer = d
                /\ calls[i].payment = DecodePayment(request.header).val
                /\ calls[i].requirements.scheme = calls[i].payment.scheme
                /\ calls[i].requirements.network = calls[i].payment.network
            /\ \E k \in DOMAIN trace :
                /\ trace[k].ev = "verify" /\ trace[k].layer = d
                /\ \A h \in HandlerIdx : k < h

\* a paid request to a gated path has reached the handler and its response is out
C1_Witness ==
    /\ pc = "done" /\ request.fw = "flask"
    /\ MatchingLayers # {} /\ HandlerIdx # {}

\* C2: for one inbound request Verify is called at most once and Settle is
\* called at most once, whatever rules were added before.
C2_AtMostOneVerifyAndSettle ==
    Cardinality(VerifyIdx) <= 1 /\ Cardinality(SettleIdx) <= 1

\* the layers that ran their gate pipeline for the request
FiredLayers == {trace[k].layer : k \in {j \in DOMAIN trace : trace[j].ev # "handler"}}

\* C3: the application is wrapped in as many gate layers as rules were
\* registered, and at most one rule's pipeline runs for a request.
C3_OneLayerPerRuleOneRulePerRequest ==
    /\ (\A i \in DOMAIN middleware_configs : create_middleware(middleware_configs[i]).ok)
          => Len(wsgi_app) = Len(middleware_configs)
    /\ Cardinality({wsgi_app[d].config : d \in FiredLayers}) <= 1
    /\ Cardinality(FiredLayers) <= 1

\* C4: Settle is called only after the handler returned a status in [200, 300);
\* after a handler status outside that range Settle is never called and the
\* response is the handler's, unmodified.
C4_SettleOnlyAfterHandler2xx ==
    /\ \A k \in DOMAIN trace :
          trace[k].ev = "settle" =>
             \E h \in HandlerIdx :
                h < k /\ trace[h].status >= 200 /\ trace[h].status < 300
    /\ \A h \in HandlerIdx :
          ~(trace[h].status >= 200 /\ trace[h].status < 300) =>
             /\ SettleIdx = {}
             /\ response = HandlerResponse(trace[h].status)

\* a verified request whose handler answered 300 has been passed through
C4_Witness ==
    /\ pc = "done" /\ VerifyIdx # {}
    /\ \E h \in HandlerIdx : trace[h].status = 300

\* C5: every Settle call carries the credential and the requirements of an
\* earlier Verify call of the same layer and request that returned isValid=true.
C5_SettleArgsAreVerifiedArgs ==
    \A j \in SettleIdx :
        \E i \in VerifyIdx :
            /\ i < j
            /\ AcceptedVerify(i)
            /\ calls[i].layer = calls[j].layer
            /\ calls[i].payment = calls[j].payment
            /\ calls[i].requirements = calls[j].requirements

\* a Settle call has been made
C5_Witness == \E j \in SettleIdx : calls[j].returned

\* C6: the response carries one X-PAYMENT-RESPONSE header for each Settle call
\* that returned success=true and none otherwise, and each decodes to the
\* SettleResponse of such a call.
C6_HeaderOnlyOnSettleSuccess ==
    LET succeeded == {j \in SettleIdx : /\ calls[j].returned
                                        /\ calls[j].result.ok
                                        /\ calls[j].result.val.success}
    IN  /\ Cardinality(PaymentResponseHeaders) = Cardinality(succeeded)
        /\ \A h \in PaymentResponseHeaders :
              \E j \in succeeded :
                 DecodeSettle(response.headers[h].value) = calls[j].result.val

\* a settled response is out, with its header
C6_Witness == pc = "done" /\ PaymentResponseHeaders # {}

\* C7: a request whose path matches no installed rule makes no Facilitator
\* call, is never challenged, and its response is exactly the handler's, with
\* or without an X-PAYMENT header.
C7_UnmatchedForwardedUnchanged ==
    (request.fw # "none" /\ NoRuleMatches) =>
        /\ calls = <<>>
        /\ pc # "error"
        /\ \A k \in DOMAIN trace : trace[k].ev = "handler"
        /\ pc = "done" =>
              \E h \in HandlerIdx : response = HandlerResponse(trace[h].status)

\* a request with a credential passed a gated application on an ungated path
C7_Witness ==
    /\ pc = "done" /\ request.fw = "flask"
    /\ wsgi_app # <<>> /\ MatchingLayers = {}
    /\ request.header.present

\* the rule of the outermost layer that applies to the request's path
MatchedRule == wsgi_app[CHOOSE d \in MatchingLayers : \A e \in MatchingLayers : e <= d].config

\* C8: a request without X-PAYMENT to a gated path ends in a 402 whose body has
\* error "No X-PAYMENT header provided", x402Version 1 and exactly one accepted
\* PaymentRequirements, with the matched rule's normalized amount.
C8_NoHeaderChallenge ==
    (/\ request.fw = "flask" /\ ~request.header.present
     /\ MatchingLayers # {} /\ pc \in {"done", "error"}) =>
        /\ pc = "done"
        /\ response.status = 402
        /\ response.body.error = <<"No X-PAYMENT header provided">>
        /\ response.body.x402Version = 1
        /\ Len(response.body.accepts) = 1
        /\ response.body.accepts[1].maxAmountRequired =
              process_price_to_atomic_amount(MatchedRule.price,
                                             MatchedRule.network).val.max_amount_required

\* the Facilitator answered the call with a JSON object saying isValid=false
SaidInvalid(i) ==
    /\ calls[i].op = "verify" /\ calls[i].returned
    /\ calls[i].reply.transport = "ok" /\ calls[i].reply.json
    /\ "isValid" \in calls[i].reply.data.keys
    /\ ~calls[i].reply.data.isValid

\* C9: when the Verify reply reports isValid=false, with or without an
\* invalidReason or a payer, the gate answers 402 "Invalid payment: <reason>"
\* and raises nothing.
C9_InvalidVerifyIsChallenged ==
    \A i \in VerifyIdx :
        SaidInvalid(i) =>
            /\ pc # "error"
            /\ response.status = 402
            /\ response.body.error[1] = "Invalid payment: "

\* the Verify call failed at the transport level: the POST raised, the status
\* is not 2xx, or the body is no JSON document
VerifyTransportFailed(i) ==
    /\ calls[i].op = "verify" /\ calls[i].returned
    /\ \/ calls[i].reply.transport = "error"
       \/ ~(calls[i].reply.status >= 200 /\ calls[i].reply.status < 300)
       \/ ~calls[i].reply.json

\* C10: a transport-level failure of Verify ends the request in an unhandled
\* error: no 402, no handler, no Settle.
C10_VerifyTransportFailureIsFatal ==
    \A i \in VerifyIdx :
        VerifyTransportFailed(i) =>
            /\ pc = "error"
            /\ response = NoResponse
            /\ HandlerIdx = {}
            /\ SettleIdx = {}

\* the require_payment calls whose arguments are a valid rule: the asset
\* resolves, the amount parses and the facilitator URL is an http(s) URL
ValidFastapiRule(args) ==
    /\ FastapiAsset(args, get_chain_id(args.network_id)).ok
    /\ FastapiParsed(args, FastapiAsset(args, get_chain_id(args.network_id))).ok
    /\ startswith(args.facilitator_url, HttpPrefix)
          \/ startswith(args.facilitator_url, HttpsPrefix)

\* the valid rules the FastAPI application registered for the request's path
FastapiGating ==
    {i \in DOMAIN fastapi_rules :
        /\ ValidFastapiRule(fastapi_rules[i])
        /\ path_is_match(fastapi_rules[i].path, request.path)}

FailedSettle(j) ==
    /\ calls[j].op = "settle" /\ calls[j].returned
    /\ ~(calls[j].result.ok /\ calls[j].result.val.success)

\* C12: when the Settle calls of a Flask request fail (success=false or an
\* exception), the response stays the handler's own, with no
\* X-PAYMENT-RESPONSE header, and no error leaves the gate.
C12_FlaskSettleFailureKeepsResponse ==
    (request.fw = "flask" /\ SettleIdx # {}) =>
        /\ pc # "error"
        /\ (\A j \in SettleIdx : calls[j].returned => FailedSettle(j)) =>
              /\ PaymentResponseHeaders = {}
              /\ \E h \in HandlerIdx :
                    /\ is_2xx(trace[h].status)
                    /\ response = HandlerResponse(trace[h].status)

\* a request whose Settle raised and one whose Settle said success=false have
\* both been answered with the handler's 2xx response
C12_Witness ==
    /\ pc = "done" /\ request.fw = "flask"
    /\ \E j \in SettleIdx : FailedSettle(j) /\ ~calls[j].result.ok
    /\ \E j \in SettleIdx : FailedSettle(j) /\ calls[j].result.ok
    /\ \A j \in SettleIdx : FailedSettle(j)
    /\ is_2xx(response.status)

\* the layer that emitted the request's 402
ChallengingLayer ==
    wsgi_app[trace[CHOOSE k \in DOMAIN trace :
                     /\ trace[k].ev = "402"
                     /\ \A m \in DOMAIN trace : trace[m].ev = "402" => m <= k].layer]

\* the error prefix the condition that ended the request in a 402 calls for
ExpectedPrefix ==
    IF ~request.header.present THEN "No X-PAYMENT header provided"
    ELSE IF ~DecodePayment(request.header).ok THEN "Invalid payment header format: "
    ELSE IF ~Selects(flask_payment_requirements(ChallengingLayer, request).val,
                     DecodePayment(request.header).val)
         THEN "No matching payment requirements found"
    ELSE "Invalid payment: "

\* C13: every 402 of the gate carries the fixed prefix of the condition that
\* ended the request, and a Settle result with success=false is reported as
\* "Settle failed: " followed by the Facilitator's reason.
C13_ErrorPrefixNamesCondition ==
    /\ (request.fw = "flask" /\ response.status = 402) =>
          response.body.error[1] = ExpectedPrefix
    /\ \A j \in SettleIdx :
          (calls[j].returned /\ calls[j].result.ok /\ ~calls[j].result.val.success) =>
             fastapi_after_settle(response, calls[j].result,
                                  calls[j].requirements).body.error =
                <<"Settle failed: ", calls[j].result.val.error_reason>>

\* C14: a rule whose registration returned never fails a request for a reason
\* of its configuration: a request ends in an unhandled error only through a
\* Facilitator call that raised.
C14_NoDeferredConfigurationError ==
    pc = "error" => (calls # <<>> /\ ~calls[Len(calls)].result.ok)

\* the atomic amount a price helper returned: parse_money returns the int,
\* process_price_to_atomic_amount its decimal string
ReturnedAtomic ==
    IF fn_call.fn = "parse_money" THEN fn_result.int
    ELSE DigitsToNat(fn_result.val.max_amount_required)

\* a is a nearest integer to ip.fp * 10^decimals (either neighbour on a tie)
IsRounded(a, ip, fp, decimals) ==
    LET coeff == DigitsToNat(ip \o fp)                  \* D * 10^Len(fp)
        unit  == Pow10(Len(fp) - decimals)              \* when Len(fp) > decimals
    IN  IF Len(fp) <= decimals
        THEN a = coeff * Pow10(decimals - Len(fp))
        ELSE \/ a = coeff \div unit /\ 2 * (coeff % unit) <= unit
             \/ a = (coeff \div unit) + 1 /\ 2 * (coeff % unit) >= unit

\* C15: normalizing "$" + D on a supported network returns
\* round(D * 10^decimals), also when D has more fractional digits than the
\* token has decimals.
C15_MoneyIsRoundedToAtomicUnits ==
    (fn_call.fn \in {"process_price_to_atomic_amount", "parse_money"}
       /\ fn_call.price = "money") =>
        /\ fn_result.ok
        /\ IsRounded(ReturnedAtomic, fn_call.ip, fn_call.fp, UsdcDecimals)

-----------------------------------------------------------------------------
\* C16: normalizing a TokenAmount returns its amount string, its asset address
\* and its EIP-712 name and version unchanged, whatever the network argument
\* and the asset's decimals; the returned amount fed back as a TokenAmount
\* comes back the same again.
TokenCall == fn_call.fn = "process_price_to_atomic_amount" /\ fn_call.price = "token"

FedBack == TokenCall /\ fn_call.round = 2

C16_TokenAmountPassesUnchanged ==
    (TokenCall /\ TokenAmount(fn_call.amount, fn_call.asset).ok) =>
        /\ fn_result.ok
        /\ fn_result.val.max_amount_required = fn_call.amount
        /\ fn_result.val.asset_address = fn_call.asset.address
        /\ fn_result.val.eip712_domain = fn_call.asset.eip712
        /\ FedBack => fn_result.val.max_amount_required = fn_call.given

\* a signed, zero-padded amount of an 18-decimals asset fed back on a network
\* outside the supported ones
C16_Witness ==
    /\ FedBack
    /\ fn_result.ok
    /\ fn_call.amount = <<"0", "0", "7">>
    /\ fn_call.asset.decimals = 18
    /\ fn_call.network = "solana"
-----------------------------------------------------------------------------
\* C17: every PaymentRequirements the gate builds or advertises carries a
\* maxAmountRequired that parses as a non-negative integer: no 402 challenge
\* advertises a negative amount, a price that yields one being refused when
\* the rule is constructed.
NonNegativeInt(v) == IntParses(v) /\ v[1] # "-"

C17_AdvertisedAmountIsNonNegative ==
    (response # NoResponse /\ response.status = 402) =>
        \A i \in DOMAIN response.body.accepts :
            NonNegativeInt(response.body.accepts[i].maxAmountRequired)
-----------------------------------------------------------------------------
\* C18: path matching agrees with the three-way reference. A pattern that
\* starts with "regex:" matches iff the rest, as a regular expression, matches
\* at the start of the path; otherwise a pattern with '*' or '?' matches iff
\* it glob-matches the whole path; otherwise it matches iff it equals the
\* path; a list matches iff one of its elements does, the empty list never.

\* the lengths of the prefixes of name that the glob pattern can consume,
\* starting from the lengths in from
RECURSIVE GlobReach(_, _, _)
GlobReach(from, pat, name) ==
    IF pat = <<>> THEN from
    ELSE GlobReach(
            IF pat[1] = "*" THEN {j \in 0..Len(name) : \E i \in from : i <= j}
            ELSE {i + 1 : i \in {k \in from : /\ k < Len(name)
                                               /\ pat[1] \in {"?", name[k + 1]}}},
            Tail(pat), name)

\* the lengths reachable from the lengths in from by consuming any number of
\* characters that the atom at the head of re accepts
AtomClosure(from, re, text) ==
    {j \in 0..Len(text) :
        \E i \in from : i <= j /\ \A k \in (i + 1)..j : AtomMatches(re, text[k])}

\* the lengths of the prefixes of text that the regular expression can consume
RECURSIVE RegexReach(_, _, _)
RegexReach(from, re, text) ==
    IF re = <<>> THEN from
    ELSE IF re = <<"$">> THEN from \cap {Len(text)}
    ELSE LET rest == DropFirst(re, AtomLen(re))
             once == {i + 1 : i \in {k \in from : /\ k < Len(text)
                                                  /\ AtomMatches(re, text[k + 1])}}
         IN  IF rest # <<>> /\ rest[1] = "*"
             THEN RegexReach(AtomClosure(from, re, text), Tail(rest), text)
             ELSE IF rest # <<>> /\ rest[1] = "+"
             THEN RegexReach(AtomClosure(once, re, text), Tail(rest), text)
             ELSE RegexReach(once, rest, text)

ReferenceMatch(pattern, request_path) ==
    IF Len(pattern) >= 6 /\ SubSeq(pattern, 1, 6) = RegexPrefix
    THEN LET re == SubSeq(pattern, 7, Len(pattern))
         IN  RegexReach({0}, IF re # <<>> /\ re[1] = "^" THEN Tail(re) ELSE re,
                        request_path) # {}
    ELSE IF \E i \in DOMAIN pattern : pattern[i] \in {"*", "?"}
    THEN Len(request_path) \in GlobReach({0}, pattern, request_path)
    ELSE pattern = request_path

-----------------------------------------------------------------------------
\* C19: the gate events of one request occur in the strict order Verify,
\* handler, Settle (after path match, decode and selection), none of them
\* twice and none after a later one; the handler runs at most once; a request
\* that has been answered ended in exactly one of NO_MATCH, CHALLENGED,
\* VERIFY_REJECTED, HANDLER_REJECTED, SETTLED, SETTLE_FAILED.
StepRank(ev) ==
    CASE ev = "verify" -> 4 [] ev = "handler" -> 5 [] ev = "settle" -> 6 [] OTHER -> 7

Happened(ev) == \E k \in DOMAIN trace : trace[k].ev = ev

SettledCalls == {i \in SettleIdx : calls[i].returned /\ SettleSucceeded(calls[i].result)}

Terminals ==
    {t \in {"NO_MATCH", "CHALLENGED", "VERIFY_REJECTED", "HANDLER_REJECTED",
            "SETTLED", "SETTLE_FAILED"} :
        CASE t = "NO_MATCH" -> Happened("handler") /\ ~Happened("verify")
          [] t = "CHALLENGED" -> Happened("402") /\ ~Happened("verify")
          [] t = "VERIFY_REJECTED" -> Happened("402") /\ Happened("verify")
          [] t = "HANDLER_REJECTED" ->
                Happened("handler") /\ Happened("verify") /\ ~Happened("settle")
          [] t = "SETTLED" -> SettledCalls # {}
          [] OTHER -> SettleIdx \ SettledCalls # {}}

C19_StepsInStrictOrder ==
    /\ \A j, k \in DOMAIN trace : j < k => StepRank(trace[j].ev) < StepRank(trace[k].ev)
    /\ Cardinality(HandlerIdx) <= 1
    /\ pc = "done" => Cardinality(Terminals) = 1
-----------------------------------------------------------------------------
\* C20: requests served at the same time are independent. Every event loop a
\* request's layers run and close is one its own thread made, and it is
\* running exactly while that thread is inside a Verify or Settle call; every
\* Verify and Settle call carries the request's own credential and the
\* requirements of a rule that matches its own URL, and so do flask.g and a
\* 402 answer; what a request ends with depends on nothing but the request,
\* the Facilitator's replies to it and its handler's status.
ThreadState(t) == IF t = thread THEN Registers ELSE parked[t]

\* the Facilitator's replies to a request's calls and its handler's statuses
RepliesTo(r) ==
    <<[i \in DOMAIN r.calls |-> r.calls[i].reply],
      [k \in DOMAIN r.trace |-> r.trace[k].status]>>

OwnCall(r, call) ==
    /\ call.payment = DecodePayment(r.request.header).val
    /\ call.requirements.resource = UrlOf(r.request.path)
    /\ call.layer \in DOMAIN wsgi_app
    /\ flask_path_is_match(wsgi_app[call.layer].config.path, r.request.path)
    /\ call.requirements.pay_to = wsgi_app[call.layer].config.pay_to_address

Independent(t, r) ==
    /\ \A k \in DOMAIN r.frames : r.frames[k].loop = t
    /\ (event_loops[t] = "running") <=> (r.pc \in {"verify", "settle"})
    /\ current_loop[t] \in {0, t}
    /\ \A i \in DOMAIN r.calls : OwnCall(r, r.calls[i])
    /\ r.g.set => r.g.payment_details.resource = UrlOf(r.request.path)
    /\ (r.response # NoResponse /\ r.response.status = 402) =>
          r.response.body.accepts[1].resource = UrlOf(r.request.path)

SameOutcome(r, u) ==
    (/\ r.pc \in {"done", "error"} /\ u.pc \in {"done", "error"}
     /\ r.request = u.request
     /\ RepliesTo(r) = RepliesTo(u)) =>
        /\ r.pc = u.pc
        /\ r.response = u.response
        /\ r.raised = u.raised
        /\ r.calls = u.calls

C20_ConcurrentRequestsAreIndependent ==
    \A t \in Threads :
        /\ Independent(t, ThreadState(t))
        /\ \A u \in Threads : SameOutcome(ThreadState(t), ThreadState(u))

\* two requests for the same rule, one inside its Verify call while the other
\* is inside its Settle call, each on a running loop of its own
C20_Witness ==
    /\ ThreadState(1).pc = "verify"
    /\ ThreadState(2).pc = "settle"
    /\ ThreadState(1).request.path = PathA
    /\ ThreadState(2).request.path = PathA
    /\ event_loops = [t \in Threads |-> "running"]
-----------------------------------------------------------------------------
\* C21: on each of the four supported networks a rule with a Money price and
\* no explicit asset is registered by the Flask and by the FastAPI gate, and
\* both advertise the network's canonical stablecoin as asset; on any other
\* network the registration fails.
ValidMoney(price) ==
    /\ price.kind \in {"str", "int"}
    /\ Decimal(IF price.kind = "str" THEN StripDollar(price.text)
               ELSE IntToStr(price.value)).kind # "invalid"

PlainMoneyRule ==
    /\ fn_call.fn = "register"
    /\ ValidMoney(fn_call.cfg.price)
    /\ fn_call.cfg.facilitator_config.kind = "none"

C21_MoneyRuleOnEverySupportedNetwork ==
    PlainMoneyRule =>
        IF fn_call.cfg.network \in SupportedNetworks
        THEN /\ fn_result.flask.ok
             /\ fn_result.flask.val.asset_address =
                    get_usdc_address(EVM_NETWORK_TO_CHAIN_ID[fn_call.cfg.network]).val
             /\ fn_result.fastapi.ok
             /\ fn_result.fastapi.val.asset =
                    get_usdc_address(EVM_NETWORK_TO_CHAIN_ID[fn_call.cfg.network]).val
        ELSE ~fn_result.flask.ok /\ ~fn_result.fastapi.ok
-----------------------------------------------------------------------------
\* C22: the Facilitator is contacted only at the Verify and Settle steps. A
\* request that is answered 402 because its X-PAYMENT header is missing or
\* empty, does not decode, or names a scheme and network equal to no
\* requirements entry has caused no call; every call that was made carries a
\* decoded credential whose scheme and network both equal its requirements',
\* and requirements are refused as not matching only when one of them differs.
Refused(error) == response # NoResponse /\ response.status = 402 /\ response.body.error[1] = error

-----------------------------------------------------------------------------
\* C23: the empty pattern never matches: _path_is_match returns false for the
\* pattern "" against every request path, the empty path included, whether
\* the pattern is given alone or as the elements of a list.
OnlyEmptyPatterns(path) ==
    IF path.kind = "str" THEN path.pattern = <<>>
    ELSE \A i \in DOMAIN path.patterns : path.patterns[i] = <<>>

C23_EmptyPatternNeverMatches ==
    (/\ fn_call.fn = "path_is_match"
     /\ fn_call.fw = "fastapi"
     /\ OnlyEmptyPatterns(fn_call.path)) => ~fn_result.bool

-----------------------------------------------------------------------------
(* C24 *)

\* the wire form of a PaymentRequirements is the one the rule calls for: the
\* resource is the configured override, or else the URL of the request; the
\* output schema is the configured one, or else the empty object; extra is
\* an object with the token's name and version; the other fields are the
\* rule's own values and the price normalized for the rule's network
FromRule(wire, config) ==
    LET price == process_price_to_atomic_amount(config.price, config.network).val
    IN  /\ wire.resource = IF config.resource # <<>> THEN config.resource
                           ELSE UrlOf(request.path)
        /\ wire.outputSchema # "None"
        /\ wire.outputSchema = IF config.output_schema = "None" THEN "{}"
                               ELSE config.output_schema
        /\ DOMAIN wire.extra = {"name", "version"}
        /\ wire.extra = price.eip712_domain
        /\ wire.scheme = "exact"
        /\ wire.network = config.network
        /\ wire.maxAmountRequired = price.max_amount_required
        /\ wire.asset = price.asset_address
        /\ wire.payTo = config.pay_to_address
        /\ wire.description = config.description
        /\ wire.mimeType = config.mime_type
        /\ wire.maxTimeoutSeconds = config.max_deadline_seconds

\* C24: every PaymentRequirements built for a request, the one a 402 carries
\* and the one sent with a Facilitator call, has as resource the rule's
\* override or else the request URL, outputSchema and extra as objects, and in
\* every other field the rule's configuration.
C24_RequirementsFollowTheRule ==
    /\ (request.fw = "flask" /\ pc = "done" /\ response.status = 402) =>
            /\ Len(response.body.accepts) = 1
            /\ FromRule(response.body.accepts[1], ChallengingLayer.config)
    /\ \A i \in DOMAIN calls :
            FromRule(model_dump(calls[i].requirements), wsgi_app[calls[i].layer].config)

\* a 402 of the rule with a configured resource and output schema, and a
\* Facilitator call of a rule that configured neither
C24_Witness ==
    /\ request.fw = "flask" /\ pc = "done" /\ response.status = 402
    /\ ChallengingLayer.config = RuleGlob
    /\ response.body.accepts[1].resource = HttpsPrefix \o <<"r">>
    /\ \E i \in DOMAIN calls :
            /\ wsgi_app[calls[i].layer].config = RuleA
            /\ calls[i].requirements.resource = UrlOf(request.path)
            /\ calls[i].requirements.output_schema = "{}"

-----------------------------------------------------------------------------
(* C25 *)

\* the URL a facilitator_config stands for: the default for None, "" for a
\* mapping without "url"
ConfiguredUrl(fc) ==
    IF fc.kind = "none" THEN DefaultFacilitatorUrl
    ELSE IF fc.has_url THEN fc.url
    ELSE <<>>

ValidUrl(url) == startswith(url, HttpPrefix) \/ startswith(url, HttpsPrefix)

\* C25: a gate builder given an invalid facilitator URL fails; a client that
\* was constructed stores a base URL that starts with "http://" or "https://"
\* and does not end with "/"; and with a valid URL (and a valid price) both
\* the Flask and the FastAPI builder construct their client and return a gate.
C25_FacilitatorUrlIsValidated ==
    fn_call.fn = "register" =>
        LET cfg == fn_call.cfg
            url == ConfiguredUrl(cfg.facilitator_config)
        IN  /\ ~ValidUrl(url) => ~fn_result.flask.ok /\ ~fn_result.fastapi.ok
            /\ fn_result.flask.ok =>
                    /\ ValidUrl(fn_result.flask.val.facilitator.url)
                    /\ ~endswith(fn_result.flask.val.facilitator.url, <<"/">>)
            /\ (ValidUrl(url) /\ ValidMoney(cfg.price)
                    /\ cfg.network \in SupportedNetworks) => fn_result.flask.ok
            /\ (ValidUrl(url) /\ ValidMoney(cfg.price)
                    /\ cfg.network \in {"base", "base-sepolia"}) => fn_result.fastapi.ok

-----------------------------------------------------------------------------
(* C26 *)

\* the price is not one the normalizer can convert for the network: the
\* network is not a recognized one, the price is a Money whose text is no
\* decimal number, or it is neither Money nor TokenAmount
InvalidPrice(price, network) ==
    \/ network \notin SupportedNetworks
    \/ price.kind \in {"str", "int"} /\ ~ValidMoney(price)
    \/ price.kind \notin {"str", "int", "token"}

\* C26: for an unrecognized network, an unparsable decimal string or a price
\* that is neither Money nor TokenAmount, process_price_to_atomic_amount
\* raises ValueError: it returns no result and lets no other exception out.
C26_InvalidPriceRaisesValueError ==
    (/\ fn_call.fn = "process_price_to_atomic_amount" /\ fn_call.price = "any"
     /\ InvalidPrice(fn_call.raw, fn_call.network)) =>
        fn_result = Raise("ValueError")

-----------------------------------------------------------------------------
(* C27 *)

\* the context holds the requirements and the result of a Verify call of
\* this request that accepted the payment
HoldsVerified ==
    /\ g.set
    /\ \E i \in VerifyIdx :
            /\ AcceptedVerify(i)
            /\ g.payment_details = calls[i].requirements
            /\ g.verify_response = calls[i].result.val

\* C27: once the handler of a matched request was invoked, the request
\* context holds the selected PaymentRequirements and the VerifyResponse of
\* that request; and when the request ended in a 402 the context was never
\* written.
C27_ContextWrittenOnlyForTheHandler ==
    request.fw = "flask" =>
        /\ (HandlerIdx # {} /\ MatchingLayers # {}) => HoldsVerified
        /\ (pc = "done" /\ response.status = 402) => ~g.set

-----------------------------------------------------------------------------
(* C28 *)

\* the step is a call of PaymentMiddleware.add
AddStep ==
    /\ pc = "idle" /\ pc' = "idle"
    /\ fastapi_rules' = fastapi_rules

\* a call of add that raised left the rules and the chain as they were; a
\* call of add with a configuration that is valid by itself did not raise
FailedAddChangesNothing ==
    AddStep =>
        /\ raised' # "none" =>
                /\ middleware_configs' = middleware_configs
                /\ wsgi_app' = wsgi_app
        /\ (/\ Len(middleware_configs') = Len(middleware_configs) + 1
            /\ create_middleware(middleware_configs'[Len(middleware_configs')]).ok) =>
                raised' = "none"

\* C28: if PaymentMiddleware.add raises, the list of registered rules and the
\* application's middleware chain are the same as before the call, and a later
\* add with a valid configuration succeeds.
C28_FailedAddLeavesGateUnchanged == [][FailedAddChangesNothing]_vars

-----------------------------------------------------------------------------
(* C29 *)

\* C29: for a Money price (a string with or without "$", or an integer) and a
\* supported network, the amount the FastAPI gate advertises, str(parse_money(
\* ...)), equals the max_amount_required the Flask gate advertises for the
\* same configuration.
C29_GatesNormalizePricesAlike ==
    (/\ fn_call.fn = "register"
     /\ ValidMoney(fn_call.cfg.price)
     /\ fn_call.cfg.network \in SupportedNetworks
     /\ ValidUrl(ConfiguredUrl(fn_call.cfg.facilitator_config))) =>
        /\ fn_result.flask.ok
        /\ fn_result.parsed.ok
        /\ IntToStr(fn_result.parsed.val) = fn_result.flask.val.max_amount_required

-----------------------------------------------------------------------------
(* C30 *)

InFlight == pc \in {"dispatch", "verify", "unwind", "settle"}

\* the request is over: one response was started and nothing was raised, or
\* one exception left the gate
Terminal ==
    \/ pc = "done" /\ response.status # 0 /\ raised = "none"
    \/ pc = "error" /\ raised # "none"

\* C30: every request that entered the gate eventually reaches a terminal
\* outcome, one response or one propagated error, for any number of
\* registered rules, given that every Facilitator call and the handler return.
C30_EveryRequestTerminates ==
    /\ InFlight ~> Terminal
    /\ [](pc \in {"done", "error"} => Terminal)

\* a request that passed the layers of two registrations, was verified and
\* settled by more than one of them, and was answered
C30_Witness ==
    /\ pc = "done" /\ Terminal
    /\ Len(middleware_configs) = MaxRules
    /\ Cardinality(SettleIdx) >= 2

====
